---- MODULE Spec2Model ----
(***************************************************************************)
(* The transaction ledgers of the WebWaka African payment integration      *)
(* service: the tier-1 ledger (src/src/routes/tier1_critical_platforms.py),*)
(* the generic framework ledger                                            *)
(* (src/src/routes/african_payment_framework.py) and the ledgers of the    *)
(* Nigerian, Kenyan and South African blueprints.                          *)
(*                                                                         *)
(* Every handler is one action.  A request body is a function from the     *)
(* JSON keys it carries to their values, so `field in data` is             *)
(* field \in DOMAIN data.  datetime.utcnow() reads the clock `now`;        *)
(* uuid.uuid4() is a fresh value, the count of draws so far plus one; the  *)
(* country ledgers, whose ids carry their own prefix, number their uuids   *)
(* by handler.                                                             *)
(* Columns that a handler only copies from the body into the row and that  *)
(* no handler reads again (description, customer_*, fees, the JSON blobs,  *)
(* ip_address, user_agent, external_transaction_id, platform_status) are   *)
(* left out of the rows, and so is the audit column updated_at, which no   *)
(* handler reads.  A float that a handler computes by division is kept as  *)
(* the exact fraction.  The repository holds no ReconciliationDiscrepancy  *)
(* store: `discrepancies` is the set of such records, which no handler     *)
(* writes.                                                                 *)
(***************************************************************************)
EXTENDS Integers, Sequences, FiniteSets, TLC

VARIABLES
    tier1_transactions,           \* table tier1_transactions, rows in insertion order
    african_payment_gateways,     \* table african_payment_gateways
    payment_gateway_integrations, \* table payment_gateway_integrations
    payment_transactions,         \* table payment_transactions
    uuid_draws,                   \* uuid.uuid4() values the tier-1 and framework handlers drew
    now,                          \* the clock datetime.utcnow() reads
    request,                      \* the request the last handler served
    response,                     \* the response it returned
    discrepancies,                \* the ReconciliationDiscrepancy records that exist
    delivered,                    \* history: the status reports applied so far
    sessions,                     \* per worker: the request in progress and its db.session
    nigerian_payment_transactions,      \* table nigerian_payment_transactions
    kenyan_payment_transactions,        \* table kenyan_payment_transactions
    south_african_payment_transactions  \* table south_african_payment_transactions

framework == <<african_payment_gateways, payment_gateway_integrations, payment_transactions>>

\* The ledgers of the three country blueprints.
ecosystems == <<nigerian_payment_transactions, kenyan_payment_transactions,
                south_african_payment_transactions>>

vars == <<tier1_transactions, framework, ecosystems, uuid_draws, now, request, response,
          discrepancies, delivered, sessions>>

\* ------------------------------------------------------------------ bounds

\* Rows the tier-1 ledger may hold.
MaxTier1 == 1

\* Rows the framework ledger may hold.
MaxTxn == 2

\* Gateways and integrations the framework may hold.
MaxGateways == 1

MaxIntegrations == 1

\* Last value of the clock.
MaxClock == 1

\* Concurrent request workers.
NumWorkers == 2

\* Rows each country ledger may hold.
MaxEcosystem == 1

\* ------------------------------------------------------------------ values

\* Python's None in a datetime or integer column.
None == 0 - 1

\* Python's None in a string column.
NoneStr == "None"

\* bool(x) of a nullable datetime: a datetime is always truthy, None is not.
Truthy(x) == x # None

\* The empty JSON object.
EmptyBody == [k \in {} |-> NoneStr]

\* f"ref_{uuid.uuid4().hex[:8]}", the n-th uuid drawn.
GenRef(n) == "ref_" \o ToString(n)

\* Statuses a status-update body may carry: the five the model's comment lists,
\* and Expired, which the column accepts like any other string.
StatusInputs == {"Pending", "Processing", "Success", "Failed", "Cancelled", "Expired"}

\* Bodies of POST /transactions of the tier-1 ledger.
Tier1Full ==
    [platform |-> "mpesa", platform_integration_id |-> "m1", amount |-> 500,
     currency |-> "KES", payment_method |-> "mobile_money", country_code |-> "KE",
     reference |-> "abc"]

Tier1NoReference ==
    [platform |-> "mpesa", platform_integration_id |-> "m1", amount |-> 500,
     currency |-> "KES", payment_method |-> "mobile_money", country_code |-> "KE"]

Tier1NoAmount ==
    [platform |-> "mpesa", platform_integration_id |-> "m1",
     currency |-> "KES", payment_method |-> "mobile_money", country_code |-> "KE",
     reference |-> "abc"]

Tier1CreateBodies == {Tier1Full, Tier1NoReference, Tier1NoAmount}

\* Bodies of PUT /transactions/<transaction_id>/status.
Tier1UpdateBodies ==
    {[status |-> s] : s \in StatusInputs} \cup {[failure_reason |-> "timeout"]}

\* transaction_id values a request path may name: those of the rows, and one that
\* no row carries.
TransactionIds(rows, draws) ==
    {rows[i].transaction_id : i \in 1..Len(rows)} \cup {draws + 1}

\* ------------------------------------------------------------------ tier-1 ledger

\* data.get(key, default)
Get(data, key, default) == IF key \in DOMAIN data THEN data[key] ELSE default

\* Tier1Transaction(...) as create_tier1_transaction builds it, with the column
\* defaults the insert fills in.  uuid is the number of the uuid drawn for
\* transaction_id; the default reference draws the next one, whether or not the
\* body carries a reference (the argument of data.get is evaluated first).
NewTier1Transaction(data, uuid, clock) ==
    [transaction_id          |-> uuid,
     platform                |-> data.platform,
     platform_integration_id |-> data.platform_integration_id,
     reference               |-> Get(data, "reference", GenRef(uuid + 1)),
     amount                  |-> data.amount,
     currency                |-> data.currency,
     payment_method          |-> data.payment_method,
     country_code            |-> data.country_code,
     status                  |-> "Pending",
     initiated_at            |-> clock,
     processed_at            |-> None,
     completed_at            |-> None,
     response_time           |-> None,
     created_at              |-> clock]

\* The fields the tier-1 create handler requires.
Tier1RequiredFields ==
    {"platform", "platform_integration_id", "amount", "currency", "payment_method",
     "country_code"}

\* Tier1Transaction.query.filter_by(transaction_id=...).first(): the row's index, 0 if none.
FindTier1(rows, transaction_id) ==
    IF \E i \in 1..Len(rows) : rows[i].transaction_id = transaction_id
    THEN CHOOSE i \in 1..Len(rows) : rows[i].transaction_id = transaction_id
    ELSE 0

\* The status assignment of update_transaction_status.
AssignStatus(row, data) ==
    IF "status" \in DOMAIN data THEN data.status ELSE row.status

\* The attribute assignments update_transaction_status makes to the loaded row.
ApplyStatusUpdate(row, data, clock) ==
    LET has_status == "status" \in DOMAIN data
        to_processing == has_status /\ data.status = "Processing" /\ ~Truthy(row.processed_at)
        to_completed  == has_status /\ ~to_processing
                         /\ data.status \in {"Success", "Failed", "Cancelled"}
                         /\ ~Truthy(row.completed_at)
    IN  [row EXCEPT
            !.status = AssignStatus(row, data),
            !.processed_at = IF to_processing THEN clock ELSE @,
            !.completed_at = IF to_completed THEN clock ELSE @,
            !.response_time =
                IF to_completed /\ Truthy(row.initiated_at)
                THEN (clock - row.initiated_at) * 1000
                ELSE @]

\* to_dict() of a row, as far as a response is read here.
Snapshot(code, row) ==
    [code |-> code, transaction_id |-> row.transaction_id, status |-> row.status]

\* A response that carries an error and no transaction.
ErrorResponse(code) ==
    [code |-> code, transaction_id |-> None, status |-> NoneStr]

\* POST /transactions, whole handler.
create_tier1_transaction(data) ==
    /\ request' = [op |-> "create_tier1_transaction", transaction_id |-> None, data |-> data]
    /\ IF \E field \in Tier1RequiredFields : field \notin DOMAIN data
       THEN /\ response' = ErrorResponse(400)
            /\ UNCHANGED <<tier1_transactions, uuid_draws>>
       ELSE /\ Len(tier1_transactions) < MaxTier1
            /\ LET row == NewTier1Transaction(data, uuid_draws + 1, now)
               IN  /\ tier1_transactions' = Append(tier1_transactions, row)
                   /\ response' = Snapshot(201, row)
            /\ uuid_draws' = uuid_draws + 2
    /\ UNCHANGED <<framework, now, ecosystems, discrepancies, delivered, sessions>>

\* PUT /transactions/<transaction_id>/status, whole handler: what it reads and writes.
StatusUpdateHandler(transaction_id, data) ==
    /\ request' = [op |-> "update_transaction_status", transaction_id |-> transaction_id,
                   data |-> data]
    /\ LET i == FindTier1(tier1_transactions, transaction_id)
       IN  IF i = 0
           THEN /\ response' = ErrorResponse(404)
                /\ UNCHANGED tier1_transactions
           ELSE LET row == ApplyStatusUpdate(tier1_transactions[i], data, now)
                IN  /\ tier1_transactions' = [tier1_transactions EXCEPT ![i] = row]
                    /\ response' = Snapshot(200, row)
    /\ UNCHANGED <<framework, uuid_draws, now, ecosystems, discrepancies, sessions>>

\* update_transaction_status with a cancellation that deletes the row instead of
\* keeping it with status Cancelled.
update_transaction_status_deleting(transaction_id, data) ==
    LET i == FindTier1(tier1_transactions, transaction_id)
    IN  IF i # 0 /\ "status" \in DOMAIN data /\ data.status = "Cancelled"
        THEN /\ request' = [op |-> "update_transaction_status",
                            transaction_id |-> transaction_id, data |-> data]
             /\ tier1_transactions' =
                    SubSeq(tier1_transactions, 1, i - 1)
                    \o SubSeq(tier1_transactions, i + 1, Len(tier1_transactions))
             /\ response' = Snapshot(200, tier1_transactions[i])
             /\ UNCHANGED <<framework, uuid_draws, now, ecosystems, discrepancies, delivered, sessions>>
        ELSE /\ StatusUpdateHandler(transaction_id, data)
             /\ UNCHANGED delivered

\* update_transaction_status that answers an unknown transaction_id by storing a
\* row for it instead of answering 404.
update_transaction_status_upserting(transaction_id, data) ==
    IF FindTier1(tier1_transactions, transaction_id) = 0
    THEN LET row == ApplyStatusUpdate(
                        [NewTier1Transaction(Tier1Full, uuid_draws + 1, now)
                            EXCEPT !.transaction_id = transaction_id],
                        data, now)
         IN  /\ request' = [op |-> "update_transaction_status",
                            transaction_id |-> transaction_id, data |-> data]
             /\ tier1_transactions' = Append(tier1_transactions, row)
             /\ response' = Snapshot(200, row)
             /\ UNCHANGED <<framework, uuid_draws, now, ecosystems, discrepancies, delivered, sessions>>
    ELSE /\ StatusUpdateHandler(transaction_id, data)
         /\ UNCHANGED delivered

\* PUT /transactions/<transaction_id>/status.
update_transaction_status(transaction_id, data) ==
    /\ StatusUpdateHandler(transaction_id, data)
    /\ UNCHANGED delivered

\* The same request seen as the delivery of a gateway's status report: the
\* handler runs as for any status update, and the history records the report
\* once the handler has found its transaction and applied it.
deliver_status_report(transaction_id, data) ==
    /\ StatusUpdateHandler(transaction_id, data)
    /\ delivered' =
           IF FindTier1(tier1_transactions, transaction_id) # 0
           THEN delivered \cup {<<transaction_id, data>>}
           ELSE delivered

\* GET /transactions/<transaction_id>, whole handler.
get_tier1_transaction(transaction_id) ==
    /\ request' = [op |-> "get_tier1_transaction", transaction_id |-> transaction_id,
                   data |-> EmptyBody]
    /\ LET i == FindTier1(tier1_transactions, transaction_id)
       IN  response' = IF i = 0 THEN ErrorResponse(404)
                       ELSE Snapshot(200, tier1_transactions[i])
    /\ UNCHANGED <<tier1_transactions, framework, uuid_draws, now, ecosystems, discrepancies,
                   delivered, sessions>>

\* Query strings of GET /transactions: the status filter, or none.  limit and
\* offset keep their defaults (50 and 0), so every matching row is on the page.
Tier1ListArgs == {EmptyBody} \cup {[status |-> s] : s \in {"Pending", "Success"}}

\* GET /transactions, whole handler.  The page is given as the set of the
\* transaction_ids on it.
get_tier1_transactions(args) ==
    LET matching == {i \in 1..Len(tier1_transactions) :
                        "status" \in DOMAIN args
                            => tier1_transactions[i].status = args.status}
    IN  /\ request' = [op |-> "get_tier1_transactions", transaction_id |-> None,
                       data |-> args]
        /\ response' = [code |-> 200, transaction_id |-> None, status |-> NoneStr,
                        transactions |-> {tier1_transactions[i].transaction_id : i \in matching},
                        total |-> Cardinality(matching)]
        /\ UNCHANGED <<tier1_transactions, framework, uuid_draws, now, ecosystems, discrepancies,
                       delivered, sessions>>

\* ------------------------------------------------------------------ analytics

\* timedelta(days=days), in the seconds the clock counts.
timedelta(days) == days * 86400

RECURSIVE Gcd(_, _)
Gcd(a, b) == IF b = 0 THEN a ELSE Gcd(b, a % b)

\* The float a / b (b > 0), kept as the fraction in lowest terms: two quotients
\* are the same float exactly when they are the same fraction here.
Quotient(a, b) == [num |-> a \div Gcd(a, b), den |-> b \div Gcd(a, b)]

\* The number 0 a handler reports when there is nothing to divide by.
Zero == [num |-> 0, den |-> 1]

\* x < y for two such fractions.
Less(x, y) == x.num * y.den < y.num * x.den

\* A success rate that reports 100 when there is nothing to divide by.
SuccessRateOfNothingIsFull(successful, total) ==
    IF total > 0 THEN Quotient(successful * 100, total) ELSE Quotient(100, 1)

\* (successful / total * 100) if total > 0 else 0
SuccessRate(successful, total) ==
    IF total > 0 THEN Quotient(successful * 100, total) ELSE Zero

\* sum([float(t.amount) for t in rows if t.amount])
RECURSIVE Volume(_)
Volume(rows) ==
    IF rows = <<>> THEN 0
    ELSE (IF Head(rows).amount # 0 THEN Head(rows).amount ELSE 0) + Volume(Tail(rows))

\* The figures get_analytics_overview of the tier-1 ledger reports for a list
\* of rows.
Tier1Metrics(rows) ==
    LET total_transactions      == Len(rows)
        successful_transactions == Len(SelectSeq(rows, LAMBDA t : t.status = "Success"))
        total_volume            == Volume(rows)
    IN  [total_transactions        |-> total_transactions,
         successful_transactions   |-> successful_transactions,
         failed_transactions       |-> total_transactions - successful_transactions,
         success_rate              |-> SuccessRate(successful_transactions, total_transactions),
         total_volume              |-> total_volume,
         average_transaction_value |->
             IF total_transactions > 0 THEN Quotient(total_volume, total_transactions)
             ELSE Zero]

\* The platforms the tier-1 overview reports on, in the handler's order.
Tier1Platforms == <<"mpesa", "mtn_momo", "paystack", "flutterwave", "hubtel">>

\* max(platform_analytics.keys(), key=success_rate): the first platform no other
\* platform beats.
TopPerforming(platform_analytics) ==
    LET best(i) == \A j \in 1..Len(Tier1Platforms) :
                       ~Less(platform_analytics[Tier1Platforms[i]].success_rate,
                             platform_analytics[Tier1Platforms[j]].success_rate)
    IN  Tier1Platforms[CHOOSE i \in 1..Len(Tier1Platforms) :
                           best(i) /\ \A j \in 1..(i - 1) : ~best(j)]

\* The body of the tier-1 overview for the rows of the table and the window's start.
Tier1Overview(rows, start_date) ==
    LET in_window == SelectSeq(rows, LAMBDA t : t.created_at >= start_date)
        platform_analytics ==
            [platform \in {Tier1Platforms[i] : i \in 1..Len(Tier1Platforms)} |->
                Tier1Metrics(SelectSeq(in_window, LAMBDA t : t.platform = platform))]
    IN  [overall_metrics         |-> Tier1Metrics(in_window),
         platform_analytics      |-> platform_analytics,
         top_performing_platform |-> TopPerforming(platform_analytics)]

\* Values of ?days= : the default, and a window that starts after now.
AnalyticsDays == {30, 0 - 1}

\* The tier-1 overview with an expiry on read: it marks the Pending rows that are
\* older than the window as Expired while it counts, and saves them.
tier1_platforms_get_analytics_overview_expiring(days) ==
    /\ request' = [op |-> "tier1_platforms.get_analytics_overview",
                   transaction_id |-> None, data |-> [days |-> days]]
    /\ response' = [code |-> 200, transaction_id |-> None, status |-> NoneStr,
                    overview |-> Tier1Overview(tier1_transactions, now - timedelta(days))]
    /\ tier1_transactions' =
           [i \in 1..Len(tier1_transactions) |->
               IF /\ tier1_transactions[i].status = "Pending"
                  /\ tier1_transactions[i].created_at < now - timedelta(days)
               THEN [tier1_transactions[i] EXCEPT !.status = "Expired"]
               ELSE tier1_transactions[i]]
    /\ UNCHANGED <<framework, uuid_draws, now, ecosystems, discrepancies, delivered, sessions>>

\* GET /analytics/overview of the tier-1 ledger, whole handler.
tier1_platforms_get_analytics_overview(days) ==
    /\ request' = [op |-> "tier1_platforms.get_analytics_overview",
                   transaction_id |-> None, data |-> [days |-> days]]
    /\ response' = [code |-> 200, transaction_id |-> None, status |-> NoneStr,
                    overview |-> Tier1Overview(tier1_transactions, now - timedelta(days))]
    /\ UNCHANGED <<tier1_transactions, framework, uuid_draws, now, ecosystems, discrepancies,
                   delivered, sessions>>

\* The transaction figures of GET /statistics of the tier-1 ledger (the counts
\* of the platform integration tables, which this model does not hold, are
\* left out of the body).
Tier1Statistics(rows) ==
    LET count(status) == Len(SelectSeq(rows, LAMBDA t : t.status = status))
        breakdown(platform) ==
            LET platform_transactions == SelectSeq(rows, LAMBDA t : t.platform = platform)
                platform_successful ==
                    Len(SelectSeq(platform_transactions, LAMBDA t : t.status = "Success"))
            IN  [total_transactions      |-> Len(platform_transactions),
                 successful_transactions |-> platform_successful,
                 success_rate |-> SuccessRate(platform_successful, Len(platform_transactions))]
    IN  [transaction_statistics |->
             [total_transactions      |-> Len(rows),
              successful_transactions |-> count("Success"),
              failed_transactions     |-> count("Failed"),
              pending_transactions    |-> count("Pending")],
         platform_transaction_breakdown |->
             [platform \in {Tier1Platforms[i] : i \in 1..Len(Tier1Platforms)} |->
                 breakdown(platform)],
         overall_success_rate |-> SuccessRate(count("Success"), Len(rows))]

\* GET /statistics of the tier-1 ledger, whole handler.
get_statistics ==
    /\ request' = [op |-> "get_statistics", transaction_id |-> None, data |-> EmptyBody]
    /\ response' = [code |-> 200, transaction_id |-> None, status |-> NoneStr,
                    statistics |-> Tier1Statistics(tier1_transactions)]
    /\ UNCHANGED <<tier1_transactions, framework, uuid_draws, now, ecosystems, discrepancies,
                   delivered, sessions>>

\* ------------------------------------------------------------------ framework ledger

\* str.upper() on the country and currency codes the bodies carry.
Upper(s) ==
    CASE s = "ke"  -> "KE"
      [] s = "kes" -> "KES"
      [] s = "usd" -> "USD"
      [] OTHER     -> s

\* Bodies of POST /gateways.
GatewayFull ==
    [name |-> "mpesa", country_code |-> "ke", region |-> "East Africa",
     api_type |-> "REST", auth_type |-> "OAuth2",
     supported_payment_methods |-> {"mobile_money"},
     supported_currencies |-> {"KES"}, company_name |-> "Safaricom"]

GatewayNoCurrencies ==
    [name |-> "mpesa", country_code |-> "ke", region |-> "East Africa",
     api_type |-> "REST", auth_type |-> "OAuth2",
     supported_payment_methods |-> {"mobile_money"}, company_name |-> "Safaricom"]

GatewayBodies == {GatewayFull, GatewayNoCurrencies}

GatewayRequiredFields ==
    {"name", "country_code", "region", "api_type", "auth_type",
     "supported_payment_methods", "supported_currencies", "company_name"}

\* Bodies of POST /integrations for gateway g.
IntegrationBodies(g) ==
    {[gateway_id |-> g, user_id |-> 7, integration_name |-> "shop",
      api_credentials |-> "secret", currencies_enabled |-> {"KES"}],
     [gateway_id |-> g, user_id |-> 7, integration_name |-> "shop"]}

IntegrationRequiredFields == {"gateway_id", "user_id", "integration_name", "api_credentials"}

\* Bodies of POST /transactions of the framework ledger for integration n.
TransactionBodies(n) ==
    {[integration_id |-> n, amount |-> a, currency |-> c,
      payment_method |-> "mobile_money", reference |-> r] :
        a \in {500, 0}, c \in {"kes", "USD"}, r \in {"abc", "xyz"}}
    \cup {[integration_id |-> n, amount |-> 500, currency |-> "kes",
           payment_method |-> "mobile_money"]}

TransactionRequiredFields ==
    {"integration_id", "amount", "currency", "payment_method", "reference"}

\* query.filter_by(<key>=value).first() on a table: the row's index, 0 if none.
FindBy(rows, key, value) ==
    IF \E i \in 1..Len(rows) : rows[i][key] = value
    THEN CHOOSE i \in 1..Len(rows) :
             /\ rows[i][key] = value
             /\ \A j \in 1..(i - 1) : rows[j][key] # value
    ELSE 0

\* The values of a key column in a table, and one that no row carries.
KeysOf(rows, key, draws) == {rows[i][key] : i \in 1..Len(rows)} \cup {draws + 1}

\* AfricanPaymentGateway(...) as create_payment_gateway builds it.
NewGateway(data, uuid) ==
    [gateway_id           |-> uuid,
     name                 |-> data.name,
     country_code         |-> Upper(data.country_code),
     supported_currencies |-> data.supported_currencies,
     status               |-> Get(data, "status", "Active")]

\* PaymentGatewayIntegration(...) as create_integration builds it.
NewIntegration(data, uuid) ==
    [integration_id     |-> uuid,
     gateway_id         |-> data.gateway_id,
     user_id            |-> data.user_id,
     currencies_enabled |-> Get(data, "currencies_enabled", {}),
     status             |-> "Active"]

\* PaymentTransaction(...) as create_transaction builds it from the body and the
\* integration row (and, for the default country, the integration's gateway row).
NewPaymentTransaction(data, integration, gateway, uuid, clock) ==
    [transaction_id |-> uuid,
     gateway_id     |-> integration.gateway_id,
     integration_id |-> data.integration_id,
     reference      |-> data.reference,
     amount         |-> data.amount,
     currency       |-> Upper(data.currency),
     payment_method |-> data.payment_method,
     country_code   |-> Get(data, "country_code", gateway.country_code),
     status         |-> "Pending",
     created_at     |-> clock]

\* POST /gateways, whole handler.
create_payment_gateway(data) ==
    /\ request' = [op |-> "create_payment_gateway", transaction_id |-> None, data |-> data]
    /\ IF \E field \in GatewayRequiredFields : field \notin DOMAIN data
       THEN /\ response' = ErrorResponse(400)
            /\ UNCHANGED <<african_payment_gateways, uuid_draws>>
       ELSE /\ Len(african_payment_gateways) < MaxGateways
            /\ african_payment_gateways' =
                   Append(african_payment_gateways, NewGateway(data, uuid_draws + 1))
            /\ response' = [code |-> 201, transaction_id |-> None, status |-> NoneStr]
            /\ uuid_draws' = uuid_draws + 1
    /\ UNCHANGED <<tier1_transactions, payment_gateway_integrations, payment_transactions,
                   now, ecosystems, discrepancies, delivered, sessions>>

\* POST /integrations, whole handler.
create_integration(data) ==
    /\ request' = [op |-> "create_integration", transaction_id |-> None, data |-> data]
    /\ IF \E field \in IntegrationRequiredFields : field \notin DOMAIN data
       THEN /\ response' = ErrorResponse(400)
            /\ UNCHANGED <<payment_gateway_integrations, uuid_draws>>
       ELSE IF FindBy(african_payment_gateways, "gateway_id", data.gateway_id) = 0
       THEN /\ response' = ErrorResponse(404)
            /\ UNCHANGED <<payment_gateway_integrations, uuid_draws>>
       ELSE /\ Len(payment_gateway_integrations) < MaxIntegrations
            /\ payment_gateway_integrations' =
                   Append(payment_gateway_integrations, NewIntegration(data, uuid_draws + 1))
            /\ response' = [code |-> 201, transaction_id |-> None, status |-> NoneStr]
            /\ uuid_draws' = uuid_draws + 1
    /\ UNCHANGED <<tier1_transactions, african_payment_gateways, payment_transactions,
                   now, ecosystems, discrepancies, delivered, sessions>>

\* The row create_transaction inserts for a body that passed its checks.
BuildPaymentTransaction(data, integrations, gateways, uuid, clock) ==
    LET integration == integrations[FindBy(integrations, "integration_id", data.integration_id)]
        gateway     == gateways[FindBy(gateways, "gateway_id", integration.gateway_id)]
    IN  NewPaymentTransaction(data, integration, gateway, uuid, clock)

\* create_transaction without the check that the integration exists: a body that
\* names an unknown integration_id is stored with no gateway.
create_transaction_unverified(data) ==
    /\ request' = [op |-> "create_transaction", transaction_id |-> None, data |-> data]
    /\ IF \E field \in TransactionRequiredFields : field \notin DOMAIN data
       THEN /\ response' = ErrorResponse(400)
            /\ UNCHANGED <<payment_transactions, uuid_draws>>
       ELSE /\ Len(payment_transactions) < MaxTxn
            /\ LET known == FindBy(payment_gateway_integrations, "integration_id",
                                   data.integration_id) # 0
                   row == IF known
                          THEN BuildPaymentTransaction(data, payment_gateway_integrations,
                                                       african_payment_gateways,
                                                       uuid_draws + 1, now)
                          ELSE NewPaymentTransaction(data, [gateway_id |-> None],
                                                     [country_code |-> "KE"],
                                                     uuid_draws + 1, now)
               IN  /\ payment_transactions' = Append(payment_transactions, row)
                   /\ response' = Snapshot(201, row)
            /\ uuid_draws' = uuid_draws + 1
    /\ UNCHANGED <<tier1_transactions, african_payment_gateways,
                   payment_gateway_integrations, now, ecosystems, discrepancies, delivered, sessions>>

\* POST /transactions of the framework ledger, whole handler.
create_transaction(data) ==
    /\ request' = [op |-> "create_transaction", transaction_id |-> None, data |-> data]
    /\ IF \E field \in TransactionRequiredFields : field \notin DOMAIN data
       THEN /\ response' = ErrorResponse(400)
            /\ UNCHANGED <<payment_transactions, uuid_draws>>
       ELSE IF FindBy(payment_gateway_integrations, "integration_id", data.integration_id) = 0
       THEN /\ response' = ErrorResponse(404)
            /\ UNCHANGED <<payment_transactions, uuid_draws>>
       ELSE /\ Len(payment_transactions) < MaxTxn
            /\ LET row == BuildPaymentTransaction(data, payment_gateway_integrations,
                                                  african_payment_gateways, uuid_draws + 1,
                                                  now)
               IN  /\ payment_transactions' = Append(payment_transactions, row)
                   /\ response' = Snapshot(201, row)
            /\ uuid_draws' = uuid_draws + 1
    /\ UNCHANGED <<tier1_transactions, african_payment_gateways,
                   payment_gateway_integrations, now, ecosystems, discrepancies, delivered, sessions>>

\* Query strings of GET /transactions of the framework ledger: one filter, or
\* none.  page and per_page keep their defaults (1 and 50), so every matching
\* row is on the page.
TransactionListArgs ==
    {EmptyBody, [status |-> "Pending"], [status |-> "Success"], [country_code |-> "ke"]}

\* The rows of the framework ledger a query string's filters let through.
Filtered(rows, args) ==
    SelectSeq(rows, LAMBDA t :
        /\ "status" \in DOMAIN args => t.status = args.status
        /\ "country_code" \in DOMAIN args => t.country_code = Upper(args.country_code)
        /\ "gateway_id" \in DOMAIN args => t.gateway_id = args.gateway_id)

\* GET /transactions of the framework ledger, whole handler.  The page is given
\* as the set of the transaction_ids on it.
get_transactions(args) ==
    LET matching == Filtered(payment_transactions, args)
    IN  /\ request' = [op |-> "get_transactions", transaction_id |-> None, data |-> args]
        /\ response' = [code |-> 200, transaction_id |-> None, status |-> NoneStr,
                        transactions |-> {matching[i].transaction_id : i \in 1..Len(matching)},
                        total |-> Len(matching)]
        /\ UNCHANGED <<tier1_transactions, framework, uuid_draws, now, ecosystems, discrepancies,
                       delivered, sessions>>

\* Query strings of GET /analytics/overview of the framework ledger.
FrameworkAnalyticsArgs(gateway_ids) ==
    {[days |-> days] : days \in AnalyticsDays}
    \cup {[days |-> 30, country_code |-> c] : c \in {"ke", "ng"}}
    \cup {[days |-> 30, gateway_id |-> g] : g \in gateway_ids}

\* query.filter(PaymentTransaction.status == status).count()
CountStatus(rows, status) == Len(SelectSeq(rows, LAMBDA t : t.status = status))

\* db.session.query(column, func.count(id)).group_by(column): the pairs of a
\* value of the column and the number of rows that carry it.
GroupCount(rows, column) ==
    {<<rows[i][column], Len(SelectSeq(rows, LAMBDA t : t[column] = rows[i][column]))>> :
        i \in 1..Len(rows)}

\* The body of the framework overview.
FrameworkOverview(rows, gateways, args, clock) ==
    LET in_window == SelectSeq(rows, LAMBDA t : t.created_at >= clock - timedelta(args.days))
        query == Filtered(in_window, args)
        total_transactions      == Len(query)
        successful_transactions == CountStatus(query, "Success")
        total_volume == Volume(SelectSeq(query, LAMBDA t : t.status = "Success"))
    IN  [transactions |->
             [total        |-> total_transactions,
              successful   |-> successful_transactions,
              failed       |-> CountStatus(query, "Failed"),
              pending      |-> CountStatus(query, "Pending"),
              success_rate |-> SuccessRate(successful_transactions, total_transactions)],
         volume |->
             [total |-> total_volume,
              average_transaction |->
                  IF successful_transactions > 0
                  THEN Quotient(total_volume, successful_transactions)
                  ELSE Zero],
         payment_methods |-> GroupCount(in_window, "payment_method"),
         countries       |-> GroupCount(in_window, "country_code"),
         gateways |->
             [total  |-> Len(gateways),
              active |-> Len(SelectSeq(gateways, LAMBDA g : g.status = "Active"))]]

\* GET /analytics/overview of the framework ledger, whole handler.
african_payment_get_analytics_overview(args) ==
    /\ request' = [op |-> "african_payment.get_analytics_overview",
                   transaction_id |-> None, data |-> args]
    /\ response' = [code |-> 200, transaction_id |-> None, status |-> NoneStr,
                    overview |-> FrameworkOverview(payment_transactions,
                                                   african_payment_gateways, args, now)]
    /\ UNCHANGED <<tier1_transactions, framework, uuid_draws, now, ecosystems, discrepancies,
                   delivered, sessions>>

\* ------------------------------------------------------------------ country ledgers

\* Bodies of POST /transactions of the Nigerian and the Kenyan ledger for a
\* platform: a complete one, one that also carries a status, and one that lacks
\* amount.
EcosystemBodies(platform) ==
    {[platform |-> platform, platform_integration_id |-> "p1", amount |-> 500,
      payment_method |-> "bank_transfer"],
     [platform |-> platform, platform_integration_id |-> "p1", amount |-> 500,
      payment_method |-> "bank_transfer", status |-> "Success"],
     [platform |-> platform, platform_integration_id |-> "p1",
      payment_method |-> "bank_transfer"]}

\* The fields create_nigerian_transaction and create_kenyan_transaction require.
EcosystemRequiredFields == {"platform", "platform_integration_id", "amount", "payment_method"}

\* NigerianPaymentTransaction(...) as create_nigerian_transaction builds it, with
\* the column defaults the insert fills in (status 'Pending', created_at).  The
\* default reference draws the uuid after the one of transaction_id.
NigerianPaymentTransaction(data, uuid, clock) ==
    [transaction_id          |-> uuid,
     platform                |-> data.platform,
     platform_integration_id |-> data.platform_integration_id,
     reference               |-> Get(data, "reference", GenRef(uuid + 1)),
     amount                  |-> data.amount,
     currency                |-> Get(data, "currency", "NGN"),
     payment_method          |-> data.payment_method,
     status                  |-> "Pending",
     created_at              |-> clock]

\* A KenyanPaymentTransaction that takes its status from the body when the body
\* carries one.
KenyanPaymentTransactionWithBodyStatus(data, uuid, clock) ==
    [NigerianPaymentTransaction(data, uuid, clock) EXCEPT
        !.currency = Get(data, "currency", "KES"),
        !.status = Get(data, "status", "Pending")]

\* KenyanPaymentTransaction(...) as create_kenyan_transaction builds it, with the
\* column defaults the insert fills in.
KenyanPaymentTransaction(data, uuid, clock) ==
    [transaction_id          |-> uuid,
     platform                |-> data.platform,
     platform_integration_id |-> data.platform_integration_id,
     reference               |-> Get(data, "reference", GenRef(uuid + 1)),
     amount                  |-> data.amount,
     currency                |-> Get(data, "currency", "KES"),
     payment_method          |-> data.payment_method,
     status                  |-> "Pending",
     created_at              |-> clock]

\* POST /transactions of the Nigerian ledger, whole handler.  The transaction_id
\* is "ng_" and a uuid, so it is told from every id of another ledger by its
\* prefix and from the ids of this ledger by the uuid: the uuid is numbered among
\* the draws of this handler, which draws two for every row it stores and none
\* for a request it rejects.
create_nigerian_transaction(data) ==
    /\ request' = [op |-> "create_nigerian_transaction", transaction_id |-> None,
                   data |-> data]
    /\ IF \E field \in EcosystemRequiredFields : field \notin DOMAIN data
       THEN /\ response' = ErrorResponse(400)
            /\ UNCHANGED nigerian_payment_transactions
       ELSE /\ Len(nigerian_payment_transactions) < MaxEcosystem
            /\ LET row == NigerianPaymentTransaction(
                              data, 2 * Len(nigerian_payment_transactions) + 1, now)
               IN  /\ nigerian_payment_transactions' =
                          Append(nigerian_payment_transactions, row)
                   /\ response' = Snapshot(201, row)
    /\ UNCHANGED <<tier1_transactions, framework, uuid_draws, kenyan_payment_transactions,
                   south_african_payment_transactions, now, discrepancies, delivered,
                   sessions>>

\* POST /transactions of the Kenyan ledger, whole handler.  The uuid of the
\* transaction_id ("ke_" and a uuid) is numbered among the draws of this handler.
create_kenyan_transaction(data) ==
    /\ request' = [op |-> "create_kenyan_transaction", transaction_id |-> None,
                   data |-> data]
    /\ IF \E field \in EcosystemRequiredFields : field \notin DOMAIN data
       THEN /\ response' = ErrorResponse(400)
            /\ UNCHANGED kenyan_payment_transactions
       ELSE /\ Len(kenyan_payment_transactions) < MaxEcosystem
            /\ LET row == KenyanPaymentTransaction(
                              data, 2 * Len(kenyan_payment_transactions) + 1, now)
               IN  /\ kenyan_payment_transactions' =
                          Append(kenyan_payment_transactions, row)
                   /\ response' = Snapshot(201, row)
    /\ UNCHANGED <<tier1_transactions, framework, uuid_draws, nigerian_payment_transactions,
                   south_african_payment_transactions, now, discrepancies, delivered,
                   sessions>>

\* Bodies of POST /transactions of the South African ledger: a complete one, one
\* that also carries a status, and one that lacks amount.
SouthAfricanBodies ==
    {[platform |-> "payfast", integration_id |-> "i1", transaction_type |-> "payment",
      amount |-> 500],
     [platform |-> "payfast", integration_id |-> "i1", transaction_type |-> "payment",
      amount |-> 500, status |-> "completed"],
     [platform |-> "payfast", integration_id |-> "i1", transaction_type |-> "payment"]}

\* The keys create_transaction of the South African ledger subscripts the body
\* with.
SouthAfricanSubscripted == {"platform", "integration_id", "transaction_type", "amount"}

\* SouthAfricanPaymentTransaction(...) as create_transaction of the South African
\* ledger builds it, with the column defaults the insert fills in.
SouthAfricanPaymentTransaction(data, uuid, clock) ==
    [transaction_id   |-> uuid,
     platform         |-> data.platform,
     integration_id   |-> data.integration_id,
     user_id          |-> Get(data, "user_id", "default_user"),
     transaction_type |-> data.transaction_type,
     amount           |-> data.amount,
     currency         |-> Get(data, "currency", "ZAR"),
     reference        |-> Get(data, "reference", NoneStr),
     status           |-> "pending",
     created_at       |-> clock]

\* POST /transactions of the South African ledger, whole handler.  A body that
\* lacks a key the constructor call subscripts raises KeyError, which the
\* handler's except answers with a rollback and 500.  The uuid of a stored row
\* is numbered among the uuids this handler gave to rows: the one drawn before
\* a KeyError names nothing.
south_african_payments_create_transaction(data) ==
    /\ request' = [op |-> "south_african_payments.create_transaction",
                   transaction_id |-> None, data |-> data]
    /\ IF \E key \in SouthAfricanSubscripted : key \notin DOMAIN data
       THEN /\ response' = ErrorResponse(500)
            /\ UNCHANGED south_african_payment_transactions
       ELSE /\ Len(south_african_payment_transactions) < MaxEcosystem
            /\ LET row == SouthAfricanPaymentTransaction(
                              data, Len(south_african_payment_transactions) + 1, now)
               IN  /\ south_african_payment_transactions' =
                          Append(south_african_payment_transactions, row)
                   /\ response' = Snapshot(201, row)
    /\ UNCHANGED <<tier1_transactions, framework, uuid_draws, nigerian_payment_transactions,
                   kenyan_payment_transactions, now, discrepancies, delivered, sessions>>

\* The platforms the Nigerian and the Kenyan handlers report on.
NigerianPlatforms == {"kuda_bank", "opay", "gtbank", "interswitch", "remita"}

KenyanPlatforms == {"mpesa", "kcb_bank", "equity_bank", "airtel_money", "jenga_api", "kopokopo"}

\* The transaction figures of GET /statistics of the Nigerian and of the Kenyan
\* ledger, which differ in the table and the platforms only (the counts of the
\* platform integration tables are left out of the body).
EcosystemStatistics(rows, platforms) ==
    LET breakdown(platform) ==
            LET platform_transactions == SelectSeq(rows, LAMBDA t : t.platform = platform)
                platform_successful == CountStatus(platform_transactions, "Success")
            IN  [total_transactions      |-> Len(platform_transactions),
                 successful_transactions |-> platform_successful,
                 success_rate |-> SuccessRate(platform_successful, Len(platform_transactions))]
    IN  [transaction_statistics |->
             [total_transactions      |-> Len(rows),
              successful_transactions |-> CountStatus(rows, "Success"),
              failed_transactions     |-> CountStatus(rows, "Failed"),
              pending_transactions    |-> CountStatus(rows, "Pending")],
         platform_transaction_breakdown |->
             [platform \in platforms |-> breakdown(platform)],
         overall_success_rate |-> SuccessRate(CountStatus(rows, "Success"), Len(rows))]

\* GET /statistics of the Nigerian ledger, whole handler.
get_nigerian_statistics ==
    /\ request' = [op |-> "get_nigerian_statistics", transaction_id |-> None,
                   data |-> EmptyBody]
    /\ response' = [code |-> 200, transaction_id |-> None, status |-> NoneStr,
                    statistics |-> EcosystemStatistics(nigerian_payment_transactions,
                                                       NigerianPlatforms)]
    /\ UNCHANGED <<tier1_transactions, framework, ecosystems, uuid_draws, now,
                   discrepancies, delivered, sessions>>

\* GET /statistics of the Kenyan ledger, whole handler.
get_kenyan_statistics ==
    /\ request' = [op |-> "get_kenyan_statistics", transaction_id |-> None,
                   data |-> EmptyBody]
    /\ response' = [code |-> 200, transaction_id |-> None, status |-> NoneStr,
                    statistics |-> EcosystemStatistics(kenyan_payment_transactions,
                                                       KenyanPlatforms)]
    /\ UNCHANGED <<tier1_transactions, framework, ecosystems, uuid_draws, now,
                   discrepancies, delivered, sessions>>

\* The counts of the overviews of the Nigerian and of the Kenyan ledger for a
\* list of rows (the volumes are left out of the body).
EcosystemMetrics(rows) ==
    LET total_transactions      == Len(rows)
        successful_transactions == Len(SelectSeq(rows, LAMBDA t : t.status = "Success"))
    IN  [total_transactions      |-> total_transactions,
         successful_transactions |-> successful_transactions,
         failed_transactions     |-> total_transactions - successful_transactions,
         success_rate |-> SuccessRate(successful_transactions, total_transactions)]

\* The body of the overview of the Nigerian and of the Kenyan ledger.
EcosystemOverview(rows, platforms, start_date) ==
    LET in_window == SelectSeq(rows, LAMBDA t : t.created_at >= start_date)
    IN  [overall_metrics    |-> EcosystemMetrics(in_window),
         platform_analytics |->
             [platform \in platforms |->
                 EcosystemMetrics(SelectSeq(in_window, LAMBDA t : t.platform = platform))]]

\* GET /analytics/overview of the Nigerian ledger, whole handler.
get_nigerian_analytics_overview(days) ==
    /\ request' = [op |-> "get_nigerian_analytics_overview", transaction_id |-> None,
                   data |-> [days |-> days]]
    /\ response' = [code |-> 200, transaction_id |-> None, status |-> NoneStr,
                    overview |-> EcosystemOverview(nigerian_payment_transactions,
                                                   NigerianPlatforms,
                                                   now - timedelta(days))]
    /\ UNCHANGED <<tier1_transactions, framework, ecosystems, uuid_draws, now,
                   discrepancies, delivered, sessions>>

\* GET /analytics/overview of the Kenyan ledger, whole handler.
get_kenyan_analytics_overview(days) ==
    /\ request' = [op |-> "get_kenyan_analytics_overview", transaction_id |-> None,
                   data |-> [days |-> days]]
    /\ response' = [code |-> 200, transaction_id |-> None, status |-> NoneStr,
                    overview |-> EcosystemOverview(kenyan_payment_transactions,
                                                   KenyanPlatforms,
                                                   now - timedelta(days))]
    /\ UNCHANGED <<tier1_transactions, framework, ecosystems, uuid_draws, now,
                   discrepancies, delivered, sessions>>

\* The transaction counts of GET /statistics of the South African ledger (the
\* rounded rate and the integration counts are left out of the body).
SouthAfricanStatistics(rows) ==
    [total_transactions      |-> Len(rows),
     successful_transactions |-> CountStatus(rows, "completed"),
     failed_transactions     |-> CountStatus(rows, "failed")]

\* GET /statistics of the South African ledger, whole handler.
south_african_payments_get_statistics ==
    /\ request' = [op |-> "south_african_payments.get_statistics",
                   transaction_id |-> None, data |-> EmptyBody]
    /\ response' = [code |-> 200, transaction_id |-> None, status |-> NoneStr,
                    statistics |->
                        SouthAfricanStatistics(south_african_payment_transactions)]
    /\ UNCHANGED <<tier1_transactions, framework, ecosystems, uuid_draws, now,
                   discrepancies, delivered, sessions>>

\* Query strings of the South African overview: the defaults, and another user.
SouthAfricanAnalyticsArgs == {EmptyBody, [user_id |-> "u2"]}

\* The counts of the summary of the South African overview (the rounded figures
\* and the platform breakdown are left out of the body).
SouthAfricanOverview(rows, args, clock) ==
    LET user_id    == Get(args, "user_id", "default_user")
        start_date == clock - timedelta(Get(args, "period", 30))
        transactions ==
            SelectSeq(rows, LAMBDA t : /\ t.user_id = user_id
                                       /\ t.created_at >= start_date
                                       /\ t.created_at <= clock)
    IN  [total_transactions      |-> Len(transactions),
         successful_transactions |-> CountStatus(transactions, "completed"),
         failed_transactions     |-> CountStatus(transactions, "failed")]

\* GET /analytics/overview of the South African ledger, whole handler.
south_african_payments_get_analytics_overview(args) ==
    /\ request' = [op |-> "south_african_payments.get_analytics_overview",
                   transaction_id |-> None, data |-> args]
    /\ response' = [code |-> 200, transaction_id |-> None, status |-> NoneStr,
                    summary |-> SouthAfricanOverview(south_african_payment_transactions,
                                                     args, now)]
    /\ UNCHANGED <<tier1_transactions, framework, ecosystems, uuid_draws, now,
                   discrepancies, delivered, sessions>>

\* ------------------------------------------------------------------ concurrent requests

\* Each worker serves one request at a time in its own db.session.  A handler
\* is split where it talks to the database: the query that loads a row, and the
\* commit that writes the session's changes.

\* db.session.commit() of a loaded row: the UPDATE carries the attributes whose
\* value differs from the one loaded, and the row keeps the others as they are
\* in the table now.
Flush(current, loaded, assigned) ==
    [f \in DOMAIN current |->
        IF assigned[f] # loaded[f] THEN assigned[f] ELSE current[f]]

\* update_transaction_status up to its query: worker w loads the row, or
\* answers 404.
load_transaction(w, transaction_id, data) ==
    LET req == [op |-> "update_transaction_status", transaction_id |-> transaction_id,
                data |-> data]
        i   == FindTier1(tier1_transactions, transaction_id)
    IN  /\ sessions[w].pc = "idle"
        /\ IF i = 0
           THEN /\ sessions' = [sessions EXCEPT ![w] =
                       [pc |-> "idle", request |-> req, snapshot |-> EmptyBody,
                        response |-> ErrorResponse(404)]]
                /\ request' = req
                /\ response' = ErrorResponse(404)
           ELSE /\ sessions' = [sessions EXCEPT ![w] =
                       [pc |-> "loaded", request |-> req,
                        snapshot |-> tier1_transactions[i],
                        response |-> ErrorResponse(None)]]
                /\ UNCHANGED <<request, response>>
        /\ UNCHANGED <<tier1_transactions, framework, uuid_draws, now, ecosystems, discrepancies,
                       delivered>>

\* update_transaction_status from its assignments to its response: worker w
\* changes the row it loaded and commits.
commit_status_update(w) ==
    LET req      == sessions[w].request
        loaded   == sessions[w].snapshot
        i        == FindTier1(tier1_transactions, req.transaction_id)
        assigned == ApplyStatusUpdate(loaded, req.data, now)
        row      == Flush(tier1_transactions[i], loaded, assigned)
    IN  /\ sessions[w].pc = "loaded"
        /\ tier1_transactions' = [tier1_transactions EXCEPT ![i] = row]
        /\ request' = req
        /\ response' = Snapshot(200, row)
        /\ sessions' = [sessions EXCEPT ![w] =
               [pc |-> "idle", request |-> req, snapshot |-> EmptyBody,
                response |-> Snapshot(200, row)]]
        /\ UNCHANGED <<framework, uuid_draws, now, ecosystems, discrepancies, delivered>>

\* Rows that workers have built and not yet committed.
PendingInserts == Cardinality({w \in DOMAIN sessions : sessions[w].pc = "pending"})

\* create_transaction up to db.session.add: worker w checks the body, looks the
\* integration up and builds the row, or answers 400 or 404.
begin_create_transaction(w, data) ==
    LET req == [op |-> "create_transaction", transaction_id |-> None, data |-> data]
        bad == IF \E field \in TransactionRequiredFields : field \notin DOMAIN data
               THEN 400
               ELSE IF FindBy(payment_gateway_integrations, "integration_id",
                              data.integration_id) = 0
               THEN 404
               ELSE 0
    IN  /\ sessions[w].pc = "idle"
        /\ IF bad # 0
           THEN /\ sessions' = [sessions EXCEPT ![w] =
                       [pc |-> "idle", request |-> req, snapshot |-> EmptyBody,
                        response |-> ErrorResponse(bad)]]
                /\ request' = req
                /\ response' = ErrorResponse(bad)
                /\ UNCHANGED uuid_draws
           ELSE /\ Len(payment_transactions) + PendingInserts < MaxTxn
                /\ sessions' = [sessions EXCEPT ![w] =
                       [pc |-> "pending", request |-> req,
                        snapshot |-> BuildPaymentTransaction(
                            data, payment_gateway_integrations,
                            african_payment_gateways, uuid_draws + 1, now),
                        response |-> ErrorResponse(None)]]
                /\ uuid_draws' = uuid_draws + 1
                /\ UNCHANGED <<request, response>>
        /\ UNCHANGED <<tier1_transactions, framework, now, ecosystems, discrepancies, delivered>>

\* create_transaction from db.session.commit to its response: worker w inserts
\* the row it built; the INSERT fills in the column default of created_at.
commit_create_transaction(w) ==
    LET row == [sessions[w].snapshot EXCEPT !.created_at = now]
    IN  /\ sessions[w].pc = "pending"
        /\ payment_transactions' = Append(payment_transactions, row)
        /\ request' = sessions[w].request
        /\ response' = Snapshot(201, row)
        /\ sessions' = [sessions EXCEPT ![w] =
               [pc |-> "idle", request |-> sessions[w].request, snapshot |-> EmptyBody,
                response |-> Snapshot(201, row)]]
        /\ UNCHANGED <<tier1_transactions, african_payment_gateways,
                       payment_gateway_integrations, uuid_draws, now, ecosystems, discrepancies,
                       delivered>>

\* ------------------------------------------------------------------ specifications

\* Time passes between requests.
Tick ==
    /\ now < MaxClock
    /\ now' = now + 1
    /\ UNCHANGED <<tier1_transactions, framework, uuid_draws, request, response,
                   ecosystems, discrepancies, delivered, sessions>>

NoRequest == [op |-> "none", transaction_id |-> None, data |-> EmptyBody]

\* A worker between requests: its last request and the response it gave.
Idle == [pc |-> "idle", request |-> NoRequest, snapshot |-> EmptyBody,
         response |-> ErrorResponse(None)]

Init ==
    /\ tier1_transactions = <<>>
    /\ african_payment_gateways = <<>>
    /\ payment_gateway_integrations = <<>>
    /\ payment_transactions = <<>>
    /\ uuid_draws = 0
    /\ now = 0
    /\ request = NoRequest
    /\ response = ErrorResponse(None)
    /\ discrepancies = {}
    /\ nigerian_payment_transactions = <<>>
    /\ kenyan_payment_transactions = <<>>
    /\ south_african_payment_transactions = <<>>
    /\ delivered = {}
    /\ sessions = [w \in 1..NumWorkers |-> Idle]

Next ==
    \/ \E data \in Tier1CreateBodies : create_tier1_transaction(data)
    \/ \E transaction_id \in TransactionIds(tier1_transactions, uuid_draws),
          data \in Tier1UpdateBodies :
           update_transaction_status(transaction_id, data)
    \/ Tick

Spec == Init /\ [][Next]_vars

\* The tier-1 ledger with the history of the status reports delivered to it.
NextCallback ==
    \/ \E data \in Tier1CreateBodies : create_tier1_transaction(data)
    \/ \E transaction_id \in TransactionIds(tier1_transactions, uuid_draws),
          data \in Tier1UpdateBodies :
           deliver_status_report(transaction_id, data)
    \/ Tick

SpecCallback == Init /\ [][NextCallback]_vars

\* The requests the concurrent workers are given.
ConcUpdateBodies == {[status |-> s] : s \in {"Processing", "Success", "Failed"}}

ConcTransactionBodies(n) ==
    {[integration_id |-> n, amount |-> 500, currency |-> "kes",
      payment_method |-> "mobile_money", reference |-> r] : r \in {"abc", "xyz"}}

\* The tier-1 ledger with status updates served by concurrent workers.
NextConc ==
    \/ create_tier1_transaction(Tier1Full)
    \/ \E w \in 1..NumWorkers :
          \E transaction_id \in TransactionIds(tier1_transactions, uuid_draws),
             data \in ConcUpdateBodies :
               load_transaction(w, transaction_id, data)
    \/ \E w \in 1..NumWorkers : commit_status_update(w)
    \/ Tick

SpecConc == Init /\ [][NextConc]_vars

\* The framework ledger with transactions created by concurrent workers.
NextConcCreate ==
    \/ create_payment_gateway(GatewayFull)
    \/ \E g \in KeysOf(african_payment_gateways, "gateway_id", uuid_draws) :
          \E data \in IntegrationBodies(g) : create_integration(data)
    \/ \E w \in 1..NumWorkers :
          \E n \in KeysOf(payment_gateway_integrations, "integration_id", uuid_draws) :
              \E data \in ConcTransactionBodies(n) : begin_create_transaction(w, data)
    \/ \E w \in 1..NumWorkers : commit_create_transaction(w)

SpecConcCreate == Init /\ [][NextConcCreate]_vars

\* The framework ledger, one request at a time.
NextFramework ==
    \/ \E data \in GatewayBodies : create_payment_gateway(data)
    \/ \E g \in KeysOf(african_payment_gateways, "gateway_id", uuid_draws) :
          \E data \in IntegrationBodies(g) : create_integration(data)
    \/ \E n \in KeysOf(payment_gateway_integrations, "integration_id", uuid_draws) :
          \E data \in TransactionBodies(n) : create_transaction(data)

SpecFramework == Init /\ [][NextFramework]_vars

\* The framework ledger under a server that keeps serving: a request of each
\* endpoint that can be served is served again and again.  Nothing else runs in
\* the service: it has no timer, no background job and no scheduled task.
SpecFrameworkLive ==
    /\ Init
    /\ [][NextFramework]_vars
    /\ WF_vars(\E data \in GatewayBodies : create_payment_gateway(data))
    /\ WF_vars(\E g \in KeysOf(african_payment_gateways, "gateway_id", uuid_draws) :
                  \E data \in IntegrationBodies(g) : create_integration(data))
    /\ WF_vars(\E n \in KeysOf(payment_gateway_integrations, "integration_id", uuid_draws) :
                  \E data \in TransactionBodies(n) : create_transaction(data))

\* The status updates the requests of NextApi carry.
ApiUpdateBodies == {[status |-> s] : s \in {"Success", "Cancelled"}}

\* The bodies of POST /transactions of the framework ledger the requests of
\* NextApi carry: complete ones, and one that lacks reference.
ApiTransactionBodies(n) ==
    ConcTransactionBodies(n)
    \cup {[integration_id |-> n, amount |-> 500, currency |-> "kes",
           payment_method |-> "mobile_money"]}

\* The transaction endpoints of both ledgers, one request at a time, after the
\* one gateway and the one integration the framework transactions are made for.
NextApi ==
    \/ \E data \in Tier1CreateBodies : create_tier1_transaction(data)
    \/ \E transaction_id \in TransactionIds(tier1_transactions, uuid_draws),
          data \in ApiUpdateBodies :
           update_transaction_status(transaction_id, data)
    \/ \E transaction_id \in TransactionIds(tier1_transactions, uuid_draws) :
           get_tier1_transaction(transaction_id)
    \/ get_tier1_transactions(EmptyBody)
    \/ /\ african_payment_gateways = <<>>
       /\ create_payment_gateway(GatewayFull)
    \/ /\ payment_gateway_integrations = <<>>
       /\ \E g \in KeysOf(african_payment_gateways, "gateway_id", uuid_draws) :
              \E data \in IntegrationBodies(g) : create_integration(data)
    \/ \E n \in KeysOf(payment_gateway_integrations, "integration_id", uuid_draws) :
          \E data \in ApiTransactionBodies(n) : create_transaction(data)
    \/ get_transactions(EmptyBody)

SpecApi == Init /\ [][NextApi]_vars

\* The ledgers outside tier 1: the creation, statistics and overview endpoints
\* of the three country blueprints, and the framework's creation and overview
\* after its one gateway and its one integration.
NextEcosystems ==
    \/ \E data \in EcosystemBodies("opay") : create_nigerian_transaction(data)
    \/ \E data \in EcosystemBodies("mpesa") : create_kenyan_transaction(data)
    \/ \E data \in SouthAfricanBodies : south_african_payments_create_transaction(data)
    \/ get_nigerian_statistics
    \/ get_kenyan_statistics
    \/ south_african_payments_get_statistics
    \/ get_nigerian_analytics_overview(30)
    \/ get_kenyan_analytics_overview(30)
    \/ \E args \in SouthAfricanAnalyticsArgs :
           south_african_payments_get_analytics_overview(args)
    \/ /\ african_payment_gateways = <<>>
       /\ create_payment_gateway(GatewayFull)
    \/ /\ payment_gateway_integrations = <<>>
       /\ \E g \in KeysOf(african_payment_gateways, "gateway_id", uuid_draws) :
              \E data \in IntegrationBodies(g) : create_integration(data)
    \/ \E n \in KeysOf(payment_gateway_integrations, "integration_id", uuid_draws) :
          \E data \in ApiTransactionBodies(n) : create_transaction(data)
    \/ african_payment_get_analytics_overview([days |-> 30])

SpecEcosystems == Init /\ [][NextEcosystems]_vars

\* Rows of the tier-1 ledger the analytics are computed over.
MaxRows == 2

\* The analytics are functions of the ledger's content, so the tier-1 ledger
\* starts with any content of up to MaxRows rows that the handlers can leave:
\* each row as create_tier1_transaction inserts it and one status update
\* changes it (an update to Pending leaves it as inserted).
InitAnalytics ==
    /\ \E n \in 0..MaxRows : \E statuses \in [1..n -> StatusInputs] :
           /\ tier1_transactions =
                  [k \in 1..n |->
                      ApplyStatusUpdate(NewTier1Transaction(Tier1Full, 2 * k - 1, 0),
                                        [status |-> statuses[k]], 0)]
           /\ uuid_draws = 2 * n
    /\ african_payment_gateways = <<>>
    /\ payment_gateway_integrations = <<>>
    /\ payment_transactions = <<>>
    /\ now = 0
    /\ request = NoRequest
    /\ response = ErrorResponse(None)
    /\ discrepancies = {}
    /\ nigerian_payment_transactions = <<>>
    /\ kenyan_payment_transactions = <<>>
    /\ south_african_payment_transactions = <<>>
    /\ delivered = {}
    /\ sessions = [w \in 1..NumWorkers |-> Idle]

\* The analytics and statistics endpoints over those ledgers, and over the
\* framework ledger as its creation handlers fill it.
NextAnalytics ==
    \/ \E days \in AnalyticsDays : tier1_platforms_get_analytics_overview(days)
    \/ get_statistics
    \/ /\ african_payment_gateways = <<>>
       /\ create_payment_gateway(GatewayFull)
    \/ /\ payment_gateway_integrations = <<>>
       /\ \E g \in KeysOf(african_payment_gateways, "gateway_id", uuid_draws) :
              \E data \in IntegrationBodies(g) : create_integration(data)
    \/ \E n \in KeysOf(payment_gateway_integrations, "integration_id", uuid_draws) :
          \E data \in ConcTransactionBodies(n) : create_transaction(data)
    \/ \E args \in FrameworkAnalyticsArgs(
                       KeysOf(african_payment_gateways, "gateway_id", uuid_draws)) :
           african_payment_get_analytics_overview(args)

SpecAnalytics == InitAnalytics /\ [][NextAnalytics]_vars

\* ------------------------------------------------------------------ claims

\* The status of the tier-1 row at index i, before and after a step.
StatusOf(i) == tier1_transactions[i].status

\* A step that serves a request (the clock does not move inside a handler).
ServesStatusUpdate ==
    /\ now' = now
    /\ request'.op = "update_transaction_status"

\* C1: once a transaction's status is Success, Failed or Rejected, no later step
\* changes it; once it is Expired, a step leaves it Expired or moves it to
\* Success or Failed.
C1_StickyTerminal ==
    [][\A i \in 1..Len(tier1_transactions) :
          /\ StatusOf(i) \in {"Success", "Failed", "Rejected"}
                => tier1_transactions'[i].status = StatusOf(i)
          /\ StatusOf(i) = "Expired"
                => tier1_transactions'[i].status \in {"Expired", "Success", "Failed"}]_vars

\* The transition graph of the state machine, read generously: the code's
\* Processing stands with the in-flight states Submitted and Pending (any move
\* among them is allowed), Cancelled with the terminal Rejected.  Every edge the
\* claim allows is in it, so a step outside it is outside the claim's graph too.
InFlight == {"Created", "Submitted", "Pending", "Processing"}

LegalEdge(from, to) ==
    \/ from \in InFlight
    \/ from = "Expired" /\ to \in {"Success", "Failed"}

\* C5: every change of a transaction's status is an edge of the transition graph.
C5_OnlyLegalTransitions ==
    [][\A i \in 1..Len(tier1_transactions) :
          tier1_transactions'[i].status # StatusOf(i)
              => LegalEdge(StatusOf(i), tier1_transactions'[i].status)]_vars

\* C8: for every transaction and every two proposed statuses, applying the two
\* status updates in either order leaves the same final status.
C8_OrderIndependent ==
    \A i \in 1..Len(tier1_transactions) :
        \A a, b \in Tier1UpdateBodies :
            LET row == tier1_transactions[i]
                ab  == ApplyStatusUpdate(ApplyStatusUpdate(row, a, now), b, now)
                ba  == ApplyStatusUpdate(ApplyStatusUpdate(row, b, now), a, now)
            IN  ab.status = ba.status

\* A proposed status that the sticky-terminal rule forbids for a row in status from.
IllegalProposal(from, to) == to # from /\ ~LegalEdge(from, to)

\* C9: a status update that proposes a transition the sticky-terminal rule forbids
\* adds exactly one discrepancy record and is answered without an error.
C9_IllegalProposalRecorded ==
    [][\A i \in 1..Len(tier1_transactions) :
          (/\ ServesStatusUpdate
           /\ request'.transaction_id = tier1_transactions[i].transaction_id
           /\ "status" \in DOMAIN request'.data
           /\ IllegalProposal(StatusOf(i), request'.data.status))
          => /\ Cardinality(discrepancies') = Cardinality(discrepancies) + 1
             /\ response'.code = 200]_vars

\* A status report with this body was delivered to the transaction, and the
\* handler applied it.
WasDelivered(transaction_id, data) == <<transaction_id, data>> \in delivered

\* C6: the delivery of a status report that was delivered to the transaction
\* before changes neither the transaction's status nor the number of
\* discrepancies.
C6_RedeliveryIsNoOp ==
    [][\A i \in 1..Len(tier1_transactions) :
          (/\ ServesStatusUpdate
           /\ request'.transaction_id = tier1_transactions[i].transaction_id
           /\ WasDelivered(request'.transaction_id, request'.data))
          => /\ tier1_transactions'[i].status = StatusOf(i)
             /\ Cardinality(discrepancies') = Cardinality(discrepancies)]_vars

\* C10: a transaction that was reported Expired and has since been moved to
\* Success or Failed keeps that status in every later step.
C10_ExpiredResolvedOnce ==
    [][\A i \in 1..Len(tier1_transactions) :
          (/\ WasDelivered(tier1_transactions[i].transaction_id, [status |-> "Expired"])
           /\ StatusOf(i) \in {"Success", "Failed"})
          => tier1_transactions'[i].status = StatusOf(i)]_vars

\* The framework rows that carry the idempotency key of a creation body: its
\* integration and its reference.
RowsWithKey(data) ==
    {i \in 1..Len(payment_transactions) :
        /\ payment_transactions[i].integration_id = data.integration_id
        /\ payment_transactions[i].reference = data.reference}

\* C2: no two rows of the framework ledger carry the same integration and the
\* same reference.
C2_UniqueReference ==
    \A i, j \in 1..Len(payment_transactions) :
        (/\ payment_transactions[i].integration_id = payment_transactions[j].integration_id
         /\ payment_transactions[i].reference = payment_transactions[j].reference)
        => i = j

\* Worker w has answered a creation request for the key of data with a transaction.
AnsweredCreate(w) ==
    /\ sessions[w].pc = "idle"
    /\ sessions[w].request.op = "create_transaction"
    /\ sessions[w].response.code \in {200, 201}

\* C3: when two workers have each answered a creation request with the same
\* integration and reference, both answers carry the same transaction_id and
\* the ledger holds exactly one row for the pair.
C3_ConcurrentCreateOnce ==
    \A v, w \in 1..NumWorkers :
        (/\ v # w
         /\ AnsweredCreate(v)
         /\ AnsweredCreate(w)
         /\ sessions[v].request.data = sessions[w].request.data)
        => /\ sessions[v].response.transaction_id = sessions[w].response.transaction_id
           /\ Cardinality(RowsWithKey(sessions[v].request.data)) = 1

\* C4: a creation request whose integration and reference a row already carries
\* is answered 200 with that row's transaction_id, and adds no row.
C4_RepeatedSubmissionReturnsExisting ==
    [][\A i \in 1..Len(payment_transactions) :
          (/\ request'.op = "create_transaction"
           /\ TransactionRequiredFields \subseteq DOMAIN request'.data
           /\ i \in RowsWithKey(request'.data))
          => /\ response'.code = 200
             /\ response'.transaction_id = payment_transactions[i].transaction_id
             /\ payment_transactions' = payment_transactions]_vars

\* C7: a worker that commits a status update leaves the row as the handler
\* would leave it when run on the row as it is in the table at that moment: the
\* write is not computed from a value that another commit has since overwritten.
C7_NoLostUpdate ==
    [][\A w \in 1..NumWorkers :
          (sessions[w].pc = "loaded" /\ sessions'[w].pc = "idle")
          => LET i == FindTier1(tier1_transactions, sessions[w].request.transaction_id)
             IN  tier1_transactions'[i] =
                     ApplyStatusUpdate(tier1_transactions[i], sessions[w].request.data, now)]_vars

\* C11: every row a step adds to either ledger is in status Created when the
\* step ends: a transaction's first recorded state is Created.
C11_StartsCreated ==
    [][/\ \A i \in (Len(payment_transactions) + 1)..Len(payment_transactions') :
              payment_transactions'[i].status = "Created"
       /\ \A i \in (Len(tier1_transactions) + 1)..Len(tier1_transactions') :
              tier1_transactions'[i].status = "Created"]_vars

\* The transaction_ids of the rows of a ledger.
IdsOf(rows) == {rows[i].transaction_id : i \in 1..Len(rows)}

\* C12: no step removes a transaction from either ledger: every transaction_id
\* a ledger holds before the step it holds after it, and no ledger gets shorter.
C12_NeverDeleted ==
    [][/\ IdsOf(tier1_transactions) \subseteq IdsOf(tier1_transactions')
       /\ IdsOf(payment_transactions) \subseteq IdsOf(payment_transactions')
       /\ Len(tier1_transactions') >= Len(tier1_transactions)
       /\ Len(payment_transactions') >= Len(payment_transactions)]_vars

\* C12 witness: both ledgers hold a transaction, and the tier-1 one has been
\* through a status update that cancelled it.
C12_Witness ==
    /\ Len(payment_transactions) >= 1
    /\ Len(tier1_transactions) >= 1
    /\ tier1_transactions[1].status = "Cancelled"
    /\ request.op = "get_transactions"

\* C13: every row of either ledger has an amount above zero.
C13_PositiveAmount ==
    /\ \A i \in 1..Len(payment_transactions) : payment_transactions[i].amount > 0
    /\ \A i \in 1..Len(tier1_transactions) : tier1_transactions[i].amount > 0

\* The currencies the adapter of a framework row declares: those of its
\* integration and those of its gateway.
DeclaredCurrencies(row) ==
    LET n == FindBy(payment_gateway_integrations, "integration_id", row.integration_id)
        g == FindBy(african_payment_gateways, "gateway_id", row.gateway_id)
    IN  (IF n = 0 THEN {} ELSE payment_gateway_integrations[n].currencies_enabled)
        \cup (IF g = 0 THEN {} ELSE african_payment_gateways[g].supported_currencies)

\* C14: the currency of every row of the framework ledger is one its adapter
\* declares.
C14_SupportedCurrency ==
    \A i \in 1..Len(payment_transactions) :
        payment_transactions[i].currency \in DeclaredCurrencies(payment_transactions[i])

\* The operations that compute analytics or statistics.
AnalyticsOps ==
    {"tier1_platforms.get_analytics_overview", "african_payment.get_analytics_overview",
     "get_statistics"}

\* C15: a step that serves an analytics or statistics request leaves every row
\* of every table, and every other ledger record, as it was.
C15_AnalyticsReadOnly ==
    [][request'.op \in AnalyticsOps
          => /\ tier1_transactions' = tier1_transactions
             /\ african_payment_gateways' = african_payment_gateways
             /\ payment_gateway_integrations' = payment_gateway_integrations
             /\ payment_transactions' = payment_transactions
             /\ discrepancies' = discrepancies
             /\ delivered' = delivered]_vars

\* C15 witness: the tier-1 overview has been computed for a window that starts
\* after every row, over a ledger that holds a Pending and a Success row.
C15_Witness ==
    /\ request.op = "tier1_platforms.get_analytics_overview"
    /\ request.data.days < 0
    /\ response.code = 200
    /\ \E i, j \in 1..Len(tier1_transactions) :
           /\ tier1_transactions[i].status = "Pending"
           /\ tier1_transactions[j].status = "Success"

\* The terminal states of the state machine, with the code's Cancelled counted
\* among them.
Terminal == {"Success", "Failed", "Rejected", "Expired", "Cancelled"}

\* The number of rows of a ledger whose status is in a set.
CountIn(rows, statuses) == Cardinality({i \in 1..Len(rows) : rows[i].status \in statuses})

\* C16: the success rate the tier-1 overview reports for the whole ledger is the
\* number of Success transactions over the number of transactions in a terminal
\* state, as a percentage, whenever some transaction is in a terminal state.
C16_RateOverTerminal ==
    [][(/\ request'.op = "tier1_platforms.get_analytics_overview"
        /\ request'.data.days = 30
        /\ CountIn(tier1_transactions, Terminal) > 0)
       => response'.overview.overall_metrics.success_rate =
              Quotient(CountIn(tier1_transactions, {"Success"}) * 100,
                       CountIn(tier1_transactions, Terminal))]_vars

\* C17: a status report for a transaction_id that no row carries is answered
\* with a success code and changes no transaction.
C17_UnknownReportAcknowledged ==
    [][(/\ ServesStatusUpdate
        /\ FindTier1(tier1_transactions, request'.transaction_id) = 0)
       => /\ response'.code = 200
          /\ tier1_transactions' = tier1_transactions]_vars

\* C18: every transaction of the framework ledger that is Pending or Submitted
\* is in a terminal state at some later time.
C18_EventuallyResolved ==
    \A k \in 1..MaxTxn :
        (/\ Len(payment_transactions) >= k
         /\ payment_transactions[k].status \in {"Pending", "Submitted"})
        ~> (/\ Len(payment_transactions) >= k
            /\ payment_transactions[k].status \in Terminal)

\* C22: the status of every tier-1 transaction is one of Pending, Processing,
\* Success, Failed and Cancelled.
C22_StatusDomain ==
    \A i \in 1..Len(tier1_transactions) :
        StatusOf(i) \in {"Pending", "Processing", "Success", "Failed", "Cancelled"}

\* The statuses that go with a completion time.
Completed == {"Success", "Failed", "Cancelled"}

\* C23: a tier-1 transaction has completed_at set exactly when its status is
\* Success, Failed or Cancelled.
C23_CompletedAtFollowsStatus ==
    \A i \in 1..Len(tier1_transactions) :
        StatusOf(i) \in Completed <=> Truthy(tier1_transactions[i].completed_at)

\* C24: once a tier-1 transaction's processed_at is set no step changes it, and
\* once its completed_at is set no step changes it or response_time.
C24_TimingWriteOnce ==
    [][\A i \in 1..Len(tier1_transactions) :
          /\ Truthy(tier1_transactions[i].processed_at)
                => tier1_transactions'[i].processed_at = tier1_transactions[i].processed_at
          /\ Truthy(tier1_transactions[i].completed_at)
                => /\ tier1_transactions'[i].completed_at = tier1_transactions[i].completed_at
                   /\ tier1_transactions'[i].response_time = tier1_transactions[i].response_time]_vars

\* C27: a status update that names a transaction_id no tier-1 row carries is
\* answered 404 and leaves the tier-1 ledger as it was: no row changed, none
\* created.
C27_UnknownTransactionNotFound ==
    [][(/\ ServesStatusUpdate
        /\ FindTier1(tier1_transactions, request'.transaction_id) = 0)
       => /\ response'.code = 404
          /\ response'.transaction_id = None
          /\ tier1_transactions' = tier1_transactions]_vars

\* C27: a status update for an unknown transaction_id has been answered while the
\* ledger held a row.
C27_Witness ==
    /\ request.op = "update_transaction_status"
    /\ Len(tier1_transactions) > 0
    /\ FindTier1(tier1_transactions, request.transaction_id) = 0
    /\ response.code = 404

\* Every row of the framework ledger names an integration that exists, and
\* carries that integration's gateway_id.
ReferencesHold(transactions, integrations) ==
    \A k \in 1..Len(transactions) :
        LET n == FindBy(integrations, "integration_id", transactions[k].integration_id)
        IN  /\ n # 0
            /\ transactions[k].gateway_id = integrations[n].gateway_id

\* A step that serves a framework creation request whose body names an
\* integration_id no integration carries.
NamesUnknownIntegration ==
    /\ request'.op = "create_transaction"
    /\ "integration_id" \in DOMAIN request'.data
    /\ FindBy(payment_gateway_integrations, "integration_id",
              request'.data.integration_id) = 0

C29_FailedCountsFailed ==
    [][request'.op = "tier1_platforms.get_analytics_overview"
       => /\ response'.overview.overall_metrics.failed_transactions =
                 Cardinality({i \in 1..Len(tier1_transactions) :
                     /\ tier1_transactions[i].status = "Failed"
                     /\ tier1_transactions[i].created_at
                            >= now - timedelta(request'.data.days)})
          /\ request'.data.days = 30
                => response'.overview.overall_metrics.failed_transactions =
                       Tier1Statistics(tier1_transactions)
                           .transaction_statistics.failed_transactions]_vars

\* A reported rate with the counts it was computed from: between 0 and 100, 0
\* when nothing was selected, and no more successes than transactions.
RateInRange(success_rate, successful, total) ==
    /\ ~Less(success_rate, Zero)
    /\ ~Less(Quotient(100, 1), success_rate)
    /\ total = 0 => success_rate = Zero
    /\ successful <= total

\* C30: every success_rate of the tier-1 statistics, the tier-1 overview and the
\* framework overview lies between 0 and 100 and is 0 when no transaction was
\* selected, and the successful count it reports is at most the total.
C30_RatesInRange ==
    /\ request.op = "tier1_platforms.get_analytics_overview" =>
          /\ LET m == response.overview.overall_metrics
             IN  RateInRange(m.success_rate, m.successful_transactions,
                             m.total_transactions)
          /\ \A platform \in DOMAIN response.overview.platform_analytics :
                LET m == response.overview.platform_analytics[platform]
                IN  RateInRange(m.success_rate, m.successful_transactions,
                                m.total_transactions)
    /\ request.op = "get_statistics" =>
          /\ LET t == response.statistics.transaction_statistics
             IN  RateInRange(response.statistics.overall_success_rate,
                             t.successful_transactions, t.total_transactions)
          /\ \A platform \in DOMAIN response.statistics.platform_transaction_breakdown :
                LET m == response.statistics.platform_transaction_breakdown[platform]
                IN  RateInRange(m.success_rate, m.successful_transactions,
                                m.total_transactions)
    /\ request.op = "african_payment.get_analytics_overview" =>
          LET t == response.overview.transactions
          IN  RateInRange(t.success_rate, t.successful, t.total)

\* C30: the tier-1 overview has reported a rate strictly between 0 and 100 for
\* the whole ledger, and a rate of 0 for a platform with no transaction.
C30_Witness ==
    /\ request.op = "tier1_platforms.get_analytics_overview"
    /\ Less(Zero, response.overview.overall_metrics.success_rate)
    /\ Less(response.overview.overall_metrics.success_rate, Quotient(100, 1))
    /\ \E platform \in DOMAIN response.overview.platform_analytics :
          response.overview.platform_analytics[platform].total_transactions = 0

\* The statuses of the rows of a ledger.
StatusesOf(rows) == {rows[i].status : i \in 1..Len(rows)}

\* C25: every transaction of the framework, the Nigerian and the Kenyan ledger
\* has status Pending and every transaction of the South African ledger has
\* status pending, as at its creation, and every statistics or overview response
\* for one of these ledgers reports 0 successful transactions.
C25_StatusFrozenOutsideTier1 ==
    /\ StatusesOf(payment_transactions) \subseteq {"Pending"}
    /\ StatusesOf(nigerian_payment_transactions) \subseteq {"Pending"}
    /\ StatusesOf(kenyan_payment_transactions) \subseteq {"Pending"}
    /\ StatusesOf(south_african_payment_transactions) \subseteq {"pending"}
    /\ request.op \in {"get_nigerian_statistics", "get_kenyan_statistics"} =>
          /\ response.statistics.transaction_statistics.successful_transactions = 0
          /\ \A platform \in DOMAIN response.statistics.platform_transaction_breakdown :
                response.statistics.platform_transaction_breakdown[platform]
                    .successful_transactions = 0
    /\ request.op \in {"get_nigerian_analytics_overview", "get_kenyan_analytics_overview"} =>
          /\ response.overview.overall_metrics.successful_transactions = 0
          /\ \A platform \in DOMAIN response.overview.platform_analytics :
                response.overview.platform_analytics[platform].successful_transactions = 0
    /\ request.op = "south_african_payments.get_statistics" =>
          response.statistics.successful_transactions = 0
    /\ request.op = "south_african_payments.get_analytics_overview" =>
          response.summary.successful_transactions = 0
    /\ request.op = "african_payment.get_analytics_overview" =>
          response.overview.transactions.successful = 0

\* C25: each of the four ledgers holds a transaction, and the Kenyan statistics
\* have been reported over a ledger that is not empty.
C25_Witness ==
    /\ payment_transactions # <<>>
    /\ nigerian_payment_transactions # <<>>
    /\ kenyan_payment_transactions # <<>>
    /\ south_african_payment_transactions # <<>>
    /\ request.op = "get_kenyan_statistics"
    /\ response.statistics.transaction_statistics.total_transactions > 0

\* A step that serves a transaction-creation request whose body lacks a field
\* the handler needs.
LacksRequiredField ==
    \/ /\ request'.op = "create_tier1_transaction"
       /\ ~(Tier1RequiredFields \subseteq DOMAIN request'.data)
    \/ /\ request'.op = "create_transaction"
       /\ ~(TransactionRequiredFields \subseteq DOMAIN request'.data)
    \/ /\ request'.op \in {"create_nigerian_transaction", "create_kenyan_transaction"}
       /\ ~(EcosystemRequiredFields \subseteq DOMAIN request'.data)
    \/ /\ request'.op = "south_african_payments.create_transaction"
       /\ ~(SouthAfricanSubscripted \subseteq DOMAIN request'.data)

\* C28: a transaction-creation request that lacks a required field is answered
\* 400 and leaves every ledger as it was.
C28_MissingFieldRejected ==
    [][LacksRequiredField
       => /\ response'.code = 400
          /\ UNCHANGED <<tier1_transactions, payment_transactions, ecosystems>>]_vars

====
